---- MODULE Spec2Model ----
(***************************************************************************)
(* Model of djhelpers/ioc.py: ObjectDefinition, Inject, ApplicationContext *)
(* and RequestApplicationContext, with the decorators of                   *)
(* djhelpers/modelhelpers.py and djhelpers/adminhelpers.py.                *)
(*                                                                         *)
(* Python values are nodes [k, v, n, e]: k the kind, v a string payload,   *)
(* n an object reference, e the children.  Instances produced by factories *)
(* are references into the heap objs (identity = index).                   *)
(***************************************************************************)
EXTENDS Integers, Sequences, FiniteSets, TLC

\* ---------------------------------------------------------------- bounds
MaxObjs == 2
RecursionLimit == 3
\* the number of applications of the decorators of actions.action
MaxActions == 3
\* the number of instances where an instance is injected through a wrapper
MaxObjsInject == 3

\* ------------------------------------------------------------ constants
SCOPE_SINGLETON == "singleton"
SCOPE_PROTOTYPE == "prototype"
SCOPE_REQUEST == "request"
SCOPE_SESSION == "session"
\* the default of register's parameter singelton, Python's True
SingeltonDefault == "True"

Ids == {"A", "B"}
Wrappers == {"w1", "w2"}
Requests == {"r1", "r2"}
Sessions == {"s1"}
SESSION_KEY == "app_context_store"
\* the factories are f1 and f2, which construct a fresh object, and boom,
\* which raises

ObjectDefinitionNotFound == "ObjectDefinitionNotFound"
FactoryError == "FactoryError"
RecursionError == "RecursionError"
KeyError == "KeyError"
NoError == ""

\* ------------------------------------------------------- Python values
Node(k, v, n, e) == [k |-> k, v |-> v, n |-> n, e |-> e]
None == Node("none", "", 0, <<>>)
Lit(s) == Node("lit", s, 0, <<>>)
Obj(n) == Node("obj", "", n, <<>>)
Inject(object_id) == Node("inject", object_id, 0, <<>>)
List(es) == Node("list", "", 0, es)
Tuple(es) == Node("tuple", "", 0, es)
\* a set, its children in the iteration order of the set object
SetOf(es) == Node("set", "", 0, es)
\* a dict is the sequence of its items; an item is a key and one child
Item(key, val) == Node("item", key, 0, <<val>>)
Dict(items) == Node("dict", "", 0, items)

\* config, singeltons: the dicts _config and _singeltons of the context
\* objs: the heap, one record per instance a factory produced
\* resetMark: Len(objs) at the last reset
\* got: per id, the instances get returned for it while its registered
\*      scope was SINGLETON, since the last reset
\* last: the last operation with its outcome
\* implicit: the ids whose definition was registered without a scope argument
VARIABLES config, singeltons, objs, resetMark, got, implicit, last

\* wrappers: the RequestApplicationContext instances, each with the request
\*           it was constructed with and its _request_store
\* requests: the request objects, each with its session attribute (the name
\*           of a session store) and the items set on the request itself
\* sessions: the session stores, each a dict
VARIABLES wrappers, requests, sessions

reqvars == <<wrappers, requests, sessions>>

\* funcs: the function objects, each with its body and its attributes
\* actions: the ActionDecorator instance, a list of function objects
\* decorated: the functions the decorators of actions.action were applied
\*            to, in the order of the applications
\* dec: the last application of a decorator with what it returned
VARIABLES funcs, actions, decorated, dec

helpervars == <<funcs, actions, decorated, dec>>

\* handlers: the request handlers that call get on the one shared context,
\*           each with its position in get and the locals of its call
VARIABLES handlers

vars == <<config, singeltons, objs, resetMark, got, implicit, last, reqvars,
          helpervars, handlers>>

\* ---------------------------------------------------- ObjectDefinition
ObjectDefinition(object_id, factory, args, kwargs, inject, scope) ==
    [object_id |-> object_id,
     factory |-> factory,
     args |-> IF args.k = "none" \/ args.e = <<>> THEN List(<<>>) ELSE List(args.e),
     kwargs |-> IF kwargs.k = "none" \/ kwargs.e = <<>> THEN Dict(<<>>) ELSE Dict(kwargs.e),
     scope |-> scope]

\* F(v), with v evaluated once: a local variable of the Python code
Bind(v, F(_)) == CHOOSE y \in {F(x) : x \in {v}} : TRUE

\* ------------------------------------------------- ApplicationContext
\* the mutable part of the context a resolution threads through, with the
\* ids whose factory was invoked (made) during the call
\* and the pairs <<id, instance>> a get returned (rets) during the call
Ctx(s, o, m, r) == [singeltons |-> s, objs |-> o, made |-> m, rets |-> r]
Ret(c, val, err) == [c |-> c, val |-> val, err |-> err]

in_singeltons_never(c, object_id) == FALSE

in_singeltons(c, object_id) == object_id \in DOMAIN c.singeltons

is_singleton_always(object_def) == TRUE

is_singleton(object_def) == object_def.scope = SCOPE_SINGLETON

get_object_def_keyerror(c, object_id) ==
    IF object_id \in DOMAIN config
    THEN Ret(c, config[object_id], NoError)
    ELSE Ret(c, None, KeyError)

\* as get_object_def, but an id without a definition gets a default one
get_object_def_default(c, object_id) ==
    IF object_id \in DOMAIN config
    THEN Ret(c, config[object_id], NoError)
    ELSE Ret(c, ObjectDefinition(object_id, "f1", None, None, None, SCOPE_SINGLETON),
             NoError)

get_object_def(c, object_id) ==
    IF object_id \in DOMAIN config
    THEN Ret(c, config[object_id], NoError)
    ELSE Ret(c, None, ObjectDefinitionNotFound)

\* as call_factory, but what the factory raises is raised as a container error
call_factory_wrapped(c, object_def, args, kwargs) ==
    LET m == Append(c.made, object_def.object_id) IN
    IF object_def.factory = "boom"
    THEN Ret(Ctx(c.singeltons, c.objs, m, c.rets), None, "AppContextError")
    ELSE Ret(Ctx(c.singeltons,
                 Append(c.objs, [object_id |-> object_def.object_id,
                                 factory |-> object_def.factory,
                                 scope |-> object_def.scope,
                                 args |-> args.e,
                                 kwargs |-> kwargs.e]),
                 m, c.rets),
             Obj(Len(c.objs) + 1), NoError)

\* impl_class(*args, **kwargs): boom raises, the others build a new object
call_factory(c, object_def, args, kwargs) ==
    LET m == Append(c.made, object_def.object_id) IN
    IF object_def.factory = "boom"
    THEN Ret(Ctx(c.singeltons, c.objs, m, c.rets), None, FactoryError)
    ELSE Ret(Ctx(c.singeltons,
                 Append(c.objs, [object_id |-> object_def.object_id,
                                 factory |-> object_def.factory,
                                 scope |-> object_def.scope,
                                 args |-> args.e,
                                 kwargs |-> kwargs.e]),
                 m, c.rets),
             Obj(Len(c.objs) + 1), NoError)

add_singleton_lost(c, object_id, obj) == c

add_singleton(c, object_id, obj) ==
    Ctx((object_id :> obj.n) @@ c.singeltons, c.objs, c.made, c.rets)

returned(c, object_id, obj) ==
    Ret(Ctx(c.singeltons, c.objs, c.made, c.rets \cup {<<object_id, obj.n>>}),
        obj, NoError)

RECURSIVE get(_, _, _)
RECURSIVE eval_arg(_, _, _)
RECURSIVE eval_each(_, _, _)

\* [self._eval_arg(a) for a in arg], left to right, stopping at a raise
eval_each(c, es, depth) ==
    IF es = <<>> THEN [c |-> c, vals |-> <<>>, err |-> NoError]
    ELSE Bind(eval_arg(c, Head(es), depth), LAMBDA h :
         IF h.err # NoError THEN [c |-> h.c, vals |-> <<>>, err |-> h.err]
         ELSE Bind(eval_each(h.c, Tail(es), depth), LAMBDA t :
              [c |-> t.c, vals |-> <<h.val>> \o t.vals, err |-> t.err]))

\* as eval_arg, but an Inject marker is passed on as it is
eval_arg_inject_leaf(c, arg, depth) ==
    CASE arg.k \in {"list", "tuple", "set"} ->
           Bind(eval_each(c, arg.e, depth), LAMBDA r : Ret(r.c, List(r.vals), r.err))
      [] arg.k = "dict" ->
           Bind(eval_each(c, arg.e, depth), LAMBDA r : Ret(r.c, Dict(r.vals), r.err))
      [] arg.k = "item" ->
           Bind(eval_arg(c, arg.e[1], depth),
                LAMBDA r : Ret(r.c, Item(arg.v, r.val), r.err))
      [] OTHER -> Ret(c, arg, NoError)

\* as eval_arg, but a tuple is passed on as it is
eval_arg_tuple_leaf(c, arg, depth) ==
    CASE arg.k = "inject" -> get(c, arg.v, depth + 1)
      [] arg.k \in {"list", "set"} ->
           Bind(eval_each(c, arg.e, depth), LAMBDA r : Ret(r.c, List(r.vals), r.err))
      [] arg.k = "dict" ->
           Bind(eval_each(c, arg.e, depth), LAMBDA r : Ret(r.c, Dict(r.vals), r.err))
      [] arg.k = "item" ->
           Bind(eval_arg(c, arg.e[1], depth),
                LAMBDA r : Ret(r.c, Item(arg.v, r.val), r.err))
      [] OTHER -> Ret(c, arg, NoError)

eval_arg(c, arg, depth) ==
    CASE arg.k = "inject" -> get(c, arg.v, depth + 1)
      [] arg.k \in {"list", "tuple", "set"} ->
           Bind(eval_each(c, arg.e, depth), LAMBDA r : Ret(r.c, List(r.vals), r.err))
      [] arg.k = "dict" ->
           Bind(eval_each(c, arg.e, depth), LAMBDA r : Ret(r.c, Dict(r.vals), r.err))
      [] arg.k = "item" ->
           Bind(eval_arg(c, arg.e[1], depth),
                LAMBDA r : Ret(r.c, Item(arg.v, r.val), r.err))
      [] OTHER -> Ret(c, arg, NoError)

create(c, object_def, depth) ==
    Bind(eval_arg(c, object_def.args, depth), LAMBDA a :
    IF a.err # NoError THEN Ret(a.c, None, a.err)
    ELSE Bind(eval_arg(a.c, object_def.kwargs, depth), LAMBDA kw :
         IF kw.err # NoError THEN Ret(kw.c, None, kw.err)
         ELSE call_factory(kw.c, object_def, a.val, kw.val)))

get(c, object_id, depth) ==
    IF depth > RecursionLimit THEN Ret(c, None, RecursionError)
    ELSE IF in_singeltons(c, object_id)
    THEN returned(c, object_id, Obj(c.singeltons[object_id]))
    ELSE Bind(get_object_def(c, object_id), LAMBDA d :
         IF d.err # NoError THEN d
         ELSE Bind(create(c, d.val, depth), LAMBDA r :
              IF r.err # NoError THEN r
              ELSE IF is_singleton(d.val)
                   THEN returned(add_singleton(r.c, object_id, r.val), object_id, r.val)
                   ELSE returned(r.c, object_id, r.val)))

get_scope(c, object_id) ==
    Bind(get_object_def(c, object_id), LAMBDA d :
    IF d.err # NoError THEN Ret(c, None, d.err) ELSE Ret(c, Lit(d.val.scope), NoError))

\* as register_into, but a definition already present is kept
register_into_keep(cfg, object_id, factory, args, kwargs, inject, singelton) ==
    cfg @@
    (object_id :> ObjectDefinition(object_id, factory, args, kwargs, inject, singelton))

register_into(cfg, object_id, factory, args, kwargs, inject, singelton) ==
    (object_id :> ObjectDefinition(object_id, factory, args, kwargs, inject, singelton))
        @@ cfg

RECURSIVE load_config_into_reversed(_, _)
\* as load_config_into, but the entries are applied from the last to the first
load_config_into_reversed(cfg, entries) ==
    IF entries = <<>> THEN cfg
    ELSE LET e == entries[Len(entries)] IN
         load_config_into_reversed(
             IF Len(e) = 2
             THEN register_into(cfg, e[1], e[2], None, None, None, SingeltonDefault)
             ELSE register_into(cfg, e[1], e[2], e[3], e[4], e[5], e[6]),
             SubSeq(entries, 1, Len(entries) - 1))

RECURSIVE load_config_into(_, _)
\* an entry is a tuple unpacked into register's positional parameters
load_config_into(cfg, entries) ==
    IF entries = <<>> THEN cfg
    ELSE LET e == Head(entries) IN
         load_config_into(
             IF Len(e) = 2
             THEN register_into(cfg, e[1], e[2], None, None, None, SingeltonDefault)
             ELSE register_into(cfg, e[1], e[2], e[3], e[4], e[5], e[6]),
             Tail(entries))

\* ------------------------------------------------------------- inputs
KwDep(t) == Dict(<<Item("dep", Inject(t))>>)
ArgsNested ==
    Tuple(<<Lit("x"),
            List(<<Inject("A"), Lit("y")>>),
            Tuple(<<Lit("z"), Dict(<<Item("k", Inject("A"))>>)>>),
            SetOf(<<Lit("s")>>)>>)

\* singelton = Absent: the caller passes no sixth argument
Absent == "absent"

RegInput(f, a, kw, s) ==
    [factory |-> f, args |-> a, kwargs |-> kw, inject |-> None, singelton |-> s]

RegInputs ==
    {RegInput("f1", None, None, Absent),
     RegInput("f1", None, None, SCOPE_SINGLETON),
     RegInput("f2", None, None, SCOPE_PROTOTYPE),
     RegInput("boom", None, None, SCOPE_SINGLETON),
     RegInput("f1", None, KwDep("A"), Absent),
     RegInput("f2", ArgsNested, None, SCOPE_PROTOTYPE)}

ConfigInputs ==
    { << <<"A", "f1">>, <<"A", "f2", None, None, None, SCOPE_PROTOTYPE>> >>,
      << <<"B", "f1", None, KwDep("A"), None, SCOPE_SINGLETON>>, <<"A", "f2">> >>,
      << <<"A", "f1", None, None, None, SCOPE_SINGLETON>> >> }

EmptyDict == [x \in {} |-> 0]

\* ------------------------------------- modelhelpers and adminhelpers
\* the functions a decorator is applied to
Funcs == {"t1", "t2"}
Descriptions == {"d1", "d2"}

\* as wrapper, but the attribute boolean is set when no keyword gives it
wrapper_adds_boolean(fs, description, kwargs, func) ==
    [funcs |-> [fs EXCEPT ![func].attrs =
                   kwargs @@ ("short_description" :> description)
                          @@ ("boolean" :> "False") @@ @],
     ret |-> func]

\* the decorator short_description(description, **kwargs) applied to func:
\* the attribute short_description, then every keyword as an attribute
wrapper(fs, description, kwargs, func) ==
    [funcs |-> [fs EXCEPT ![func].attrs =
                   kwargs @@ ("short_description" :> description) @@ @],
     ret |-> func]

\* as wrap, but func is put in front of the list
wrap_in_front(acts, fs, description, func) ==
    [funcs |-> [fs EXCEPT ![func].attrs = ("short_description" :> description) @@ @],
     actions |-> <<func>> \o acts,
     ret |-> func]

\* the decorator actions.action(description) applied to func
wrap(acts, fs, description, func) ==
    [funcs |-> [fs EXCEPT ![func].attrs = ("short_description" :> description) @@ @],
     actions |-> Append(acts, func),
     ret |-> func]

\* ActionDecorator() and functions as def leaves them
InitHelpers ==
    /\ funcs = [f \in Funcs |-> [body |-> f, attrs |-> EmptyDict]]
    /\ actions = <<>>
    /\ decorated = <<>>
    /\ dec = [op |-> "init", func |-> "", ret |-> "", description |-> "",
              kwargs |-> EmptyDict, pre |-> EmptyDict]

\* ------------------------------------------------------------ actions

\* the outcome of an operation, with what the context held before it
\* (pre_cached, pre_len, pre_stored: the ids in the singleton cache, the
\* number of instances, the ids in the wrapper's request store); reg is the definition a register call was given
NoDef == ObjectDefinition("", "", None, None, None, "")

\* the request handlers of ApplicationContextMiddleware, none in a call
Handlers == {"h1", "h2"}
Idle == [pc |-> "idle", object_id |-> "", object_def |-> NoDef, obj |-> 0,
         ret |-> 0, err |-> NoError]

InitHandlers == handlers = [h \in Handlers |-> Idle]

OpOf(w, op, object_id, r, reg) ==
    [w |-> w, op |-> op, object_id |-> object_id, err |-> r.err, n |-> r.val.n,
     reg |-> reg,
     scope |-> r.val.v, made |-> r.c.made,
     pre_cached |-> DOMAIN singeltons, pre_len |-> Len(objs),
     pre_stored |-> IF w = "" THEN {} ELSE DOMAIN wrappers[w].request_store]

Op(op, object_id, r, reg) == OpOf("", op, object_id, r, reg)

Start == Ctx(singeltons, objs, <<>>, {})

\* the instances the gets of one call returned for ids registered SINGLETON
note_got(c) ==
    [i \in Ids |->
        got[i] \cup {p[2] : p \in {q \in c.rets :
                        /\ q[1] = i
                        /\ i \in DOMAIN config
                        /\ config[i].scope = SCOPE_SINGLETON}}]

Init ==
    /\ config = EmptyDict
    /\ singeltons = EmptyDict
    /\ objs = <<>>
    /\ resetMark = 0
    /\ got = [i \in Ids |-> {}]
    /\ implicit = {}
    /\ last = [w |-> "", op |-> "init", object_id |-> "", err |-> NoError, n |-> 0,
               reg |-> NoDef, scope |-> "", made |-> <<>>, pre_cached |-> {},
               pre_len |-> 0, pre_stored |-> {}]
    /\ wrappers = [w \in Wrappers |->
                     [request |-> IF w = "w1" THEN "r1" ELSE "r2",
                      request_store |-> EmptyDict]]
    /\ requests = [r \in Requests |-> [session |-> "s1", items |-> EmptyDict]]
    /\ sessions = [x \in Sessions |-> EmptyDict]
    /\ InitHelpers
    /\ InitHandlers

register(object_id, in) ==
    /\ config' = register_into(config, object_id, in.factory, in.args, in.kwargs,
                               in.inject,
                               IF in.singelton = Absent THEN SingeltonDefault
                               ELSE in.singelton)
    /\ implicit' = IF in.singelton = Absent THEN implicit \cup {object_id}
                    ELSE implicit \ {object_id}
    /\ last' = Op("register", object_id, Ret(Start, None, NoError),
                   ObjectDefinition(object_id, in.factory, in.args, in.kwargs, in.inject,
                                    IF in.singelton = Absent THEN SingeltonDefault
                                    ELSE in.singelton))
    /\ UNCHANGED <<singeltons, objs, resetMark, got, reqvars, helpervars, handlers>>

RECURSIVE implicit_after(_, _)
implicit_after(imp, entries) ==
    IF entries = <<>> THEN imp
    ELSE LET e == Head(entries) IN
         implicit_after(IF Len(e) = 2 THEN imp \cup {e[1]} ELSE imp \ {e[1]},
                        Tail(entries))

load_config(entries) ==
    /\ config' = load_config_into(config, entries)
    /\ implicit' = implicit_after(implicit, entries)
    /\ last' = Op("load_config", "", Ret(Start, None, NoError), NoDef)
    /\ UNCHANGED <<singeltons, objs, resetMark, got, reqvars, helpervars, handlers>>

\* as reset, but the singleton cache is left as it is
reset_keeps_cache ==
    /\ config' = EmptyDict
    /\ implicit' = {}
    /\ resetMark' = Len(objs)
    /\ got' = [i \in Ids |-> {}]
    /\ last' = Op("reset", "", Ret(Start, None, NoError), NoDef)
    /\ UNCHANGED <<singeltons, objs, reqvars, helpervars, handlers>>

\* as reset, but the registry is left as it is
reset_keeps_config ==
    /\ singeltons' = EmptyDict
    /\ resetMark' = Len(objs)
    /\ got' = [i \in Ids |-> {}]
    /\ last' = Op("reset", "", Ret(Start, None, NoError), NoDef)
    /\ UNCHANGED <<config, implicit, objs, reqvars, helpervars, handlers>>

reset ==
    /\ config' = EmptyDict
    /\ implicit' = {}
    /\ singeltons' = EmptyDict
    /\ resetMark' = Len(objs)
    /\ got' = [i \in Ids |-> {}]
    /\ last' = Op("reset", "", Ret(Start, None, NoError), NoDef)
    /\ UNCHANGED <<objs, reqvars, helpervars, handlers>>

Get(object_id) ==
    \E r \in {get(Start, object_id, 1)} :
    /\ Len(r.c.objs) <= MaxObjs
    /\ singeltons' = r.c.singeltons
    /\ objs' = r.c.objs
    /\ got' = note_got(r.c)
    /\ last' = Op("get", object_id, r, NoDef)
    /\ UNCHANGED <<config, implicit, resetMark, reqvars, helpervars, handlers>>

GetScope(object_id) ==
    \E r \in {get_scope(Start, object_id)} :
    /\ last' = Op("get_scope", object_id, r, NoDef)
    /\ UNCHANGED <<config, singeltons, objs, resetMark, got, implicit, reqvars, helpervars, handlers>>

Next ==
    \/ \E i \in Ids, in \in RegInputs : register(i, in)
    \/ \E entries \in ConfigInputs : load_config(entries)
    \/ reset
    \/ \E i \in Ids : Get(i)
    \/ \E i \in Ids : GetScope(i)

Spec == Init /\ [][Next]_vars

\* ------------------------------------------ RequestApplicationContext
get_request_store(ws, w) == ws[w].request_store

\* the dict kept under SESSION_KEY: looked for in request.session, set and
\* read on the request itself
get_session_store(reqs, r) ==
    LET reqs1 == IF SESSION_KEY \notin DOMAIN sessions[reqs[r].session]
                 THEN [reqs EXCEPT ![r].items = (SESSION_KEY :> EmptyDict) @@ @]
                 ELSE reqs
    IN  IF SESSION_KEY \in DOMAIN reqs1[r].items
        THEN [reqs |-> reqs1, store |-> reqs1[r].items[SESSION_KEY], err |-> NoError]
        ELSE [reqs |-> reqs1, store |-> EmptyDict, err |-> KeyError]

RacRet(ws, reqs, c, val, err) ==
    [ws |-> ws, reqs |-> reqs, c |-> c, val |-> val, err |-> err]

\* as add_to_store, but an instance is never kept
add_to_store_never(ws, reqs, w, c, object_id, obj) ==
    RacRet(ws, reqs, c, obj, NoError)

\* as add_to_store, but an instance of any scope is kept in the request store
add_to_store_always(ws, reqs, w, c, object_id, obj) ==
    RacRet([ws EXCEPT ![w].request_store = (object_id :> obj.n) @@ @],
           reqs, c, obj, NoError)

add_to_store(ws, reqs, w, c, object_id, obj) ==
    Bind(get_scope(c, object_id), LAMBDA sc :
    IF sc.err # NoError THEN RacRet(ws, reqs, c, None, sc.err)
    ELSE IF sc.val.v = SCOPE_REQUEST
    THEN RacRet([ws EXCEPT ![w].request_store = (object_id :> obj.n) @@ @],
                reqs, c, obj, NoError)
    ELSE IF sc.val.v = SCOPE_SESSION
    THEN Bind(get_session_store(reqs, ws[w].request), LAMBDA st :
         IF st.err # NoError THEN RacRet(ws, st.reqs, c, None, st.err)
         ELSE RacRet(ws,
                     [st.reqs EXCEPT ![ws[w].request].items =
                         (SESSION_KEY :> ((object_id :> obj.n) @@ st.store)) @@ @],
                     c, obj, NoError))
    ELSE RacRet(ws, reqs, c, obj, NoError))

rac_get(w, object_id) ==
    Bind(get_request_store(wrappers, w), LAMBDA rs :
    Bind(get_session_store(requests, wrappers[w].request), LAMBDA ss :
        IF ss.err # NoError THEN RacRet(wrappers, ss.reqs, Start, None, ss.err)
        ELSE IF object_id \in DOMAIN rs
        THEN RacRet(wrappers, ss.reqs, Start, Obj(rs[object_id]), NoError)
        ELSE IF object_id \in DOMAIN ss.store
        THEN RacRet(wrappers, ss.reqs, Start, Obj(ss.store[object_id]), NoError)
        ELSE Bind(get(Start, object_id, 1), LAMBDA g :
             IF g.err # NoError THEN RacRet(wrappers, ss.reqs, g.c, None, g.err)
             ELSE add_to_store(wrappers, ss.reqs, w, g.c, object_id, g.val))))

\* RequestApplicationContext(application_context, request)
NewWrapper(w, r) ==
    /\ wrappers' = [wrappers EXCEPT ![w] = [request |-> r, request_store |-> EmptyDict]]
    /\ last' = OpOf(w, "new", "", Ret(Start, None, NoError), NoDef)
    /\ UNCHANGED <<config, singeltons, objs, resetMark, got, implicit, requests, sessions, helpervars, handlers>>

\* wrapper w's get(object_id), while there are at most max instances
RGetWithin(w, object_id, max) ==
    \E r \in {rac_get(w, object_id)} :
    /\ Len(r.c.objs) <= max
    /\ singeltons' = r.c.singeltons
    /\ objs' = r.c.objs
    /\ got' = note_got(r.c)
    /\ wrappers' = r.ws
    /\ requests' = r.reqs
    /\ last' = OpOf(w, "get", object_id, r, NoDef)
    /\ UNCHANGED <<config, implicit, resetMark, sessions, helpervars, handlers>>

RGet(w, object_id) == RGetWithin(w, object_id, MaxObjs)

\* A is registered with each scope, B with a keyword argument Inject(A)
RegInputsRequest ==
    {<<"A", RegInput("f1", None, None, s)>> :
        s \in {SCOPE_SINGLETON, SCOPE_PROTOTYPE, SCOPE_REQUEST, SCOPE_SESSION}}
    \cup {<<"B", RegInput("f1", None, KwDep("A"), Absent)>>}

\* the requests and the session store the context is handed: both requests
\* have the session store s1, which may hold SESSION_KEY already, and then
\* the requests may carry an item SESSION_KEY already
InitRequest ==
    /\ config = EmptyDict
    /\ singeltons = EmptyDict
    /\ objs = <<>>
    /\ resetMark = 0
    /\ got = [i \in Ids |-> {}]
    /\ implicit = {}
    /\ last = [w |-> "", op |-> "init", object_id |-> "", err |-> NoError, n |-> 0,
               reg |-> NoDef, scope |-> "", made |-> <<>>, pre_cached |-> {},
               pre_len |-> 0, pre_stored |-> {}]
    /\ wrappers = [w \in Wrappers |->
                     [request |-> IF w = "w1" THEN "r1" ELSE "r2",
                      request_store |-> EmptyDict]]
    /\ \E env \in {<<EmptyDict, EmptyDict>>,
                    <<SESSION_KEY :> EmptyDict, EmptyDict>>,
                    <<SESSION_KEY :> EmptyDict, SESSION_KEY :> EmptyDict>>} :
          /\ sessions = [x \in Sessions |-> env[1]]
          /\ requests = [r \in Requests |-> [session |-> "s1", items |-> env[2]]]
    /\ InitHelpers
    /\ InitHandlers

NextRequest ==
    \/ \E in \in RegInputsRequest : register(in[1], in[2])
    \/ reset
    \/ \E r \in Requests : NewWrapper("w2", r)
    \/ \E w \in Wrappers, i \in Ids : RGet(w, i)

SpecRequest == InitRequest /\ [][NextRequest]_vars

\* ------------------------------------------------------------ helpers
Count(seq, x) == Cardinality({k \in DOMAIN seq : seq[k] = x})

\* the instances the last operation produced
NewObjs == (last.pre_len + 1)..Len(objs)

\* the instances produced for object_id under SINGLETON scope since the reset
Produced(object_id) ==
    Cardinality({k \in (resetMark + 1)..Len(objs) :
                    /\ objs[k].object_id = object_id
                    /\ objs[k].scope = SCOPE_SINGLETON})

RECURSIVE HasInject(_)
HasInject(arg) ==
    \/ arg.k = "inject"
    \/ \E j \in DOMAIN arg.e : HasInject(arg.e[j])

\* val is what the registered argument arg stands for in heap: an Inject
\* marker became an instance of its target (the one in cache when the
\* target is registered SINGLETON), a sequence a list of the same
\* length and order, a dict a dict with the same keys, a leaf itself
RECURSIVE Resolves(_, _, _, _)
Resolves(arg, val, heap, cache) ==
    CASE arg.k = "inject" ->
           /\ val.k = "obj"
           /\ val.n \in DOMAIN heap
           /\ heap[val.n].object_id = arg.v
           /\ (arg.v \in DOMAIN config /\ config[arg.v].scope = SCOPE_SINGLETON)
                 => (arg.v \in DOMAIN cache /\ val.n = cache[arg.v])
      [] arg.k \in {"list", "tuple", "set"} ->
           /\ val.k = "list"
           /\ Len(val.e) = Len(arg.e)
           /\ \A j \in DOMAIN arg.e : Resolves(arg.e[j], val.e[j], heap, cache)
      [] arg.k = "dict" ->
           /\ val.k = "dict"
           /\ Len(val.e) = Len(arg.e)
           /\ \A j \in DOMAIN arg.e : Resolves(arg.e[j], val.e[j], heap, cache)
      [] arg.k = "item" ->
           /\ val.k = "item"
           /\ val.v = arg.v
           /\ Resolves(arg.e[1], val.e[1], heap, cache)
      [] OTHER -> val = arg

ProducedBy(n, object_def, heap, cache) ==
    /\ n \in DOMAIN heap
    /\ heap[n].object_id = object_def.object_id
    /\ heap[n].factory = object_def.factory
    /\ Resolves(object_def.args, List(heap[n].args), heap, cache)
    /\ Resolves(object_def.kwargs, Dict(heap[n].kwargs), heap, cache)

GetReturned(object_id) ==
    /\ last.op = "get"
    /\ last.object_id = object_id
    /\ last.err = NoError

\* ------------------------------------------------------------- claims

\* C1: for an id registered with scope SINGLETON, all get(id) calls between
\* two resets return one and the same instance, that instance is the only
\* one its factory produced since the reset, and no call invokes the
\* factory of an id that is already in the singleton cache.
C1_SingletonIdentity ==
    \A i \in Ids :
        /\ Cardinality(got[i]) <= 1
        /\ got[i] # {} =>
              /\ Produced(i) = 1
              /\ i \in DOMAIN singeltons
              /\ got[i] = {singeltons[i]}
        /\ i \in last.pre_cached => Count(last.made, i) = 0

C1_Witness ==
    \E i \in DOMAIN config :
        /\ config[i].scope = SCOPE_SINGLETON
        /\ GetReturned(i)
        /\ i \in last.pre_cached
        /\ got[i] = {last.n}
        /\ last.made = <<>>

\* C2: an id registered without a scope argument is a SINGLETON: get_scope
\* returns the SINGLETON scope value and a get that returns has stored the
\* instance in the singleton cache.
C2_DefaultScopeSingleton ==
    \A i \in implicit :
        /\ (last.op = "get_scope" /\ last.object_id = i)
              => last.scope = SCOPE_SINGLETON
        /\ GetReturned(i) => (i \in DOMAIN singeltons /\ singeltons[i] = last.n)

\* C3: get and get_scope of an id that is not in the registry fail with
\* ObjectDefinitionNotFound and change neither the registry nor the
\* singleton cache (nor produce an instance).
C3_UnregisteredFails ==
    [][\A i \in Ids :
          (/\ last'.op \in {"get", "get_scope"}
           /\ last'.object_id = i
           /\ i \notin DOMAIN config)
          => (/\ last'.err = ObjectDefinitionNotFound
              /\ config' = config
              /\ singeltons' = singeltons
              /\ objs' = objs)]_vars

C3_Witness ==
    /\ last.op \in {"get", "get_scope"}
    /\ last.object_id \notin DOMAIN config
    /\ last.err = ObjectDefinitionNotFound
    /\ DOMAIN config # {}
    /\ objs # <<>>

\* a get(object_id) directly after register(object_id, ...)
GetAfterRegister(object_id) ==
    /\ last.op = "register"
    /\ last.object_id = object_id
    /\ last'.op = "get"
    /\ last'.object_id = object_id

\* C4 as stated: a get(id) directly after register(id, factory, args,
\* kwargs) that returns, returns an instance produced by that factory with
\* those args and kwargs, also when id was resolved before.
C4_GetAfterRegisterUsesFactory ==
    [][\A i \in Ids :
          (GetAfterRegister(i) /\ last'.err = NoError)
          => ProducedBy(last'.n, last.reg, objs', singeltons')]_vars

\* C4 amended: directly after register(id, ...), get(id) returns the cached
\* instance without invoking a factory when id is in the singleton cache;
\* otherwise a get that returns, returns an instance newly produced by the
\* registered factory with the registered args and kwargs, and a get of a
\* definition without Inject markers fails only when its factory raises.
C4_GetAfterRegisterUnlessCached ==
    [][\A i \in Ids :
          GetAfterRegister(i) =>
             IF i \in DOMAIN singeltons
             THEN /\ last'.err = NoError
                  /\ last'.n = singeltons[i]
                  /\ last'.made = <<>>
                  /\ objs' = objs
             ELSE /\ last'.err = NoError =>
                        /\ last'.n = Len(objs')
                        /\ last'.n > Len(objs)
                        /\ ProducedBy(last'.n, last.reg, objs', singeltons')
                  /\ (~HasInject(last.reg.args) /\ ~HasInject(last.reg.kwargs)) =>
                        /\ last'.err \in {NoError, FactoryError}
                        /\ last'.err = FactoryError <=> last.reg.factory = "boom"]_vars

C4_Witness ==
    \E i \in DOMAIN config :
        /\ GetReturned(i)
        /\ i \in last.pre_cached
        /\ objs[last.n].factory # config[i].factory
        /\ config[i].factory # "boom"

\* C5 as stated: an id registered with scope PROTOTYPE is never in the
\* singleton cache and each get(id) that returns invoked its factory once.
C5_PrototypeNeverCached ==
    \A i \in DOMAIN config :
        config[i].scope = SCOPE_PROTOTYPE =>
            /\ i \notin DOMAIN singeltons
            /\ GetReturned(i) => Count(last.made, i) = 1

\* C5 amended: for an id registered with scope PROTOTYPE that is not in
\* the singleton cache, each get(id) that returns invoked its factory
\* exactly once and returns the new instance, and no get adds the id to
\* the singleton cache.
C5_PrototypeUnlessCached ==
    \A i \in DOMAIN config :
        (config[i].scope = SCOPE_PROTOTYPE /\ last.op = "get") =>
            /\ i \in DOMAIN singeltons => i \in last.pre_cached
            /\ (GetReturned(i) /\ i \notin last.pre_cached) =>
                  /\ Count(last.made, i) = 1
                  /\ last.n = Len(objs)
                  /\ last.n > last.pre_len

\* the second get of a PROTOTYPE id made a second instance
C5_Witness ==
    \E i \in DOMAIN config :
        /\ config[i].scope = SCOPE_PROTOTYPE
        /\ GetReturned(i)
        /\ i \notin DOMAIN singeltons
        /\ \E k \in (resetMark + 1)..(last.n - 1) :
              /\ objs[k].object_id = i
              /\ objs[k].scope = SCOPE_PROTOTYPE
              /\ objs[k].factory = config[i].factory

\* C6: directly after reset the registry and the singleton cache are empty;
\* a get of an id without a definition fails with ObjectDefinitionNotFound;
\* every instance a get returns or the cache holds was produced after the
\* last reset, and a get of an id that was not cached invoked its factory.
C6_ResetClears ==
    /\ last.op = "reset" => (config = EmptyDict /\ singeltons = EmptyDict)
    /\ \A i \in DOMAIN singeltons : singeltons[i] > resetMark
    /\ (last.op = "get" /\ last.object_id \notin DOMAIN config)
          => last.err = ObjectDefinitionNotFound
    /\ (last.op = "get" /\ last.err = NoError) =>
          /\ last.n > resetMark
          /\ last.object_id \notin last.pre_cached =>
                (Count(last.made, last.object_id) = 1 /\ last.n > last.pre_len)

\* an id cached as a SINGLETON before the reset was registered again and
\* its get returned
C6_Witness ==
    /\ last.op = "get"
    /\ last.err = NoError
    /\ last.object_id \notin last.pre_cached
    /\ \E k \in 1..resetMark :
          /\ objs[k].object_id = last.object_id
          /\ objs[k].scope = SCOPE_SINGLETON

\* a get(object_id) directly after reset, of an id that reset found cached
GetAfterReset(object_id) ==
    /\ last.op = "reset"
    /\ object_id \in last.pre_cached
    /\ last'.op = "get"
    /\ last'.object_id = object_id

\* C7 as stated: reset followed directly by get of the id that was cached
\* returns an instance, one that differs from the instance of before.
C7_GetAfterResetReturnsNew ==
    [][\A i \in Ids :
          GetAfterReset(i) => (last'.err = NoError /\ last'.n > resetMark)]_vars

\* C7 amended: two gets in a row of a SINGLETON id return the same
\* instance; reset followed directly by get of that id fails with
\* ObjectDefinitionNotFound and produces nothing; a get that returns after
\* a reset (the id registered again) returns an instance produced after it.
C7_GetAfterResetFails ==
    [][\A i \in Ids :
          /\ GetAfterReset(i) =>
                (/\ last'.err = ObjectDefinitionNotFound
                 /\ objs' = objs
                 /\ singeltons' = EmptyDict)
          /\ (/\ last.op = "get" /\ last.object_id = i /\ last.err = NoError
              /\ last'.op = "get" /\ last'.object_id = i
              /\ i \in DOMAIN config /\ config[i].scope = SCOPE_SINGLETON)
             => (last'.err = NoError /\ last'.n = last.n)
          /\ (last'.op = "get" /\ last'.err = NoError) => last'.n > resetMark']_vars

C7_Witness ==
    /\ last.op = "get"
    /\ last.err = ObjectDefinitionNotFound
    /\ config = EmptyDict
    /\ \E k \in 1..resetMark :
          /\ objs[k].object_id = last.object_id
          /\ objs[k].scope = SCOPE_SINGLETON

\* C8: when a get produces an instance whose definition has a keyword
\* argument Inject(t) and t is registered with scope SINGLETON, the keyword
\* is bound to the instance the singleton cache holds for t, which is what
\* get(t) returns, and the call invoked the factory of t at most once.
C8_InjectedIsTheSingleton ==
    /\ last.op = "get" =>
          \A k \in NewObjs :
             LET d == config[objs[k].object_id] IN
             \A j \in DOMAIN d.kwargs.e :
                LET t == d.kwargs.e[j].e[1] IN
                (/\ t.k = "inject"
                 /\ t.v \in DOMAIN config
                 /\ config[t.v].scope = SCOPE_SINGLETON)
                => (/\ t.v \in DOMAIN singeltons
                    /\ objs[k].kwargs[j] = Item(d.kwargs.e[j].v, Obj(singeltons[t.v]))
                    /\ Count(last.made, t.v) <= 1)
    /\ \A i \in DOMAIN config :
          (GetReturned(i) /\ config[i].scope = SCOPE_SINGLETON)
          => (i \in DOMAIN singeltons /\ last.n = singeltons[i])

\* get(B) constructed the SINGLETON A it injects
C8_Witness ==
    /\ GetReturned("B")
    /\ "A" \in DOMAIN config
    /\ config["A"].scope = SCOPE_SINGLETON
    /\ "A" \notin last.pre_cached
    /\ "A" \in DOMAIN singeltons
    /\ last.n \in NewObjs
    /\ objs[last.n].kwargs = <<Item("dep", Obj(singeltons["A"]))>>

\* C9: the args and kwargs an instance is produced with are the registered
\* ones with every Inject marker replaced by an instance of its target,
\* every sequence a list of the same length and order, every dict a dict
\* with the same keys and every other value unchanged.
C9_NestedEvaluation ==
    last.op = "get" =>
       \A k \in NewObjs :
          LET d == config[objs[k].object_id] IN
          /\ Resolves(d.args, List(objs[k].args), objs, singeltons)
          /\ Resolves(d.kwargs, Dict(objs[k].kwargs), objs, singeltons)

C9_Witness ==
    \E i \in DOMAIN config :
        /\ GetReturned(i)
        /\ config[i].args.e = ArgsNested.e
        /\ last.n \in NewObjs
        /\ Len(objs[last.n].args) = 4
        /\ objs[last.n].args[3].e[2].e[1].e[1].k = "obj"

\* get(object_id) through wrapper w returned
RacGetReturned(w, object_id) ==
    /\ last.w = w
    /\ GetReturned(object_id)

\* C10 as stated: for a REQUEST-scoped id, a get through a wrapper returns
\* the instance the wrapper holds from then on, without a factory
\* invocation when it held one already; two wrappers never hold the same
\* instance for it; and no get adds the id to the base singleton cache.
C10_RequestScoped ==
    \A i \in DOMAIN config :
        config[i].scope = SCOPE_REQUEST =>
            /\ (last.op = "get" /\ i \in DOMAIN singeltons) => i \in last.pre_cached
            /\ \A w \in Wrappers :
                  /\ RacGetReturned(w, i) =>
                        /\ i \in DOMAIN wrappers[w].request_store
                        /\ wrappers[w].request_store[i] = last.n
                        /\ i \in last.pre_stored => last.made = <<>>
                  /\ \A v \in Wrappers \ {w} :
                        (/\ i \in DOMAIN wrappers[w].request_store
                         /\ i \in DOMAIN wrappers[v].request_store)
                        => wrappers[w].request_store[i] # wrappers[v].request_store[i]

\* the session-backed store a get through wrapper w is about to read
SessionView(w) ==
    LET r == wrappers[w].request IN
    IF SESSION_KEY \notin DOMAIN sessions[requests[r].session] THEN EmptyDict
    ELSE IF SESSION_KEY \in DOMAIN requests[r].items
    THEN requests[r].items[SESSION_KEY]
    ELSE EmptyDict

\* C10 amended: for a REQUEST-scoped id, a get through a wrapper that holds
\* an instance for it returns that instance and invokes no factory; a get
\* through a wrapper that does not hold one, when the id is in neither the
\* base singleton cache nor the session-backed store, invokes the factory
\* once and returns and keeps an instance that did not exist before (so no
\* other wrapper has it); what a wrapper holds changes only by such a get;
\* and no get adds the id to the base singleton cache.
C10_RequestScopedUnlessCached ==
    [][\A i \in DOMAIN config :
          config[i].scope = SCOPE_REQUEST =>
             /\ last'.op = "get" =>
                   (i \in DOMAIN singeltons' => i \in DOMAIN singeltons)
             /\ \A w \in Wrappers :
                   /\ (last'.op = "get" /\ last'.w = w /\ last'.object_id = i
                       /\ last'.err = NoError) =>
                         IF i \in DOMAIN wrappers[w].request_store
                         THEN /\ last'.n = wrappers[w].request_store[i]
                              /\ last'.made = <<>>
                              /\ objs' = objs
                         ELSE (i \notin DOMAIN singeltons /\ i \notin DOMAIN SessionView(w))
                              => /\ last'.n > Len(objs)
                                 /\ Count(last'.made, i) = 1
                                 /\ i \in DOMAIN wrappers'[w].request_store
                                 /\ wrappers'[w].request_store[i] = last'.n
                   /\ (i \in DOMAIN wrappers[w].request_store
                       /\ ~(last'.op = "new" /\ last'.w = w)) =>
                         /\ i \in DOMAIN wrappers'[w].request_store
                         /\ wrappers'[w].request_store[i] = wrappers[w].request_store[i]]_vars

\* both wrappers hold an instance of the REQUEST-scoped A, each its own,
\* and the last get was served from the wrapper's request store
C10_Witness ==
    /\ "A" \in DOMAIN config
    /\ config["A"].scope = SCOPE_REQUEST
    /\ "A" \notin DOMAIN singeltons
    /\ \A w \in Wrappers : "A" \in DOMAIN wrappers[w].request_store
    /\ wrappers["w1"].request_store["A"] # wrappers["w2"].request_store["A"]
    /\ \E w \in Wrappers : RacGetReturned(w, "A")
    /\ "A" \in last.pre_stored
    /\ last.n = wrappers[last.w].request_store["A"]

\* the session store of the request wrapper w was constructed with
SessionOf(w) == requests[wrappers[w].request].session

\* C11: for a SESSION-scoped id, a get through a wrapper that returns has
\* stored the instance in the mapping under SESSION_KEY in the session store
\* of the wrapper's request, and the next get of the id, through the same
\* wrapper or through a wrapper whose request has the same session store,
\* returns that instance without invoking a factory.
C11_SessionShared ==
    [][\A i \in DOMAIN config :
          config[i].scope = SCOPE_SESSION =>
             \A w \in Wrappers :
                (last.op = "get" /\ last.w = w /\ last.object_id = i
                 /\ last.err = NoError) =>
                   /\ SESSION_KEY \in DOMAIN sessions[SessionOf(w)]
                   /\ i \in DOMAIN sessions[SessionOf(w)][SESSION_KEY]
                   /\ sessions[SessionOf(w)][SESSION_KEY][i] = last.n
                   /\ \A v \in Wrappers :
                         (/\ last'.op = "get"
                          /\ last'.w = v
                          /\ last'.object_id = i
                          /\ SessionOf(v) = SessionOf(w))
                         => (/\ last'.err = NoError
                             /\ last'.n = last.n
                             /\ last'.made = <<>>)]_vars

\* the registry after register(*e) on the registry cfg
RegisterEntry(cfg, e) ==
    IF Len(e) = 2
    THEN register_into(cfg, e[1], e[2], None, None, None, SingeltonDefault)
    ELSE register_into(cfg, e[1], e[2], e[3], e[4], e[5], e[6])

\* the registry after register on each of the first k entries, in order
RECURSIVE RegisterFirst(_, _, _)
RegisterFirst(cfg, entries, k) ==
    IF k = 0 THEN cfg
    ELSE RegisterEntry(RegisterFirst(cfg, entries, k - 1), entries[k])

EntryIds(entries) == {entries[k][1] : k \in DOMAIN entries}

\* the last entry for object_id
LastEntry(entries, object_id) ==
    entries[CHOOSE k \in DOMAIN entries :
               /\ entries[k][1] = object_id
               /\ \A j \in DOMAIN entries : entries[j][1] = object_id => j <= k]

\* C12: load_config(entries) leaves the registry that register on each
\* entry in order leaves: every id of entries has the definition of its
\* last entry, the other ids keep theirs, nothing fails on duplicates and
\* neither the singleton cache nor the instances change.
C12_LoadConfigIsSequentialRegister ==
    [][\A entries \in ConfigInputs :
          (last'.op = "load_config" /\ load_config(entries)) =>
             /\ config' = RegisterFirst(config, entries, Len(entries))
             /\ DOMAIN config' = DOMAIN config \cup EntryIds(entries)
             /\ \A i \in EntryIds(entries) :
                   config'[i] = RegisterEntry(EmptyDict, LastEntry(entries, i))[i]
             /\ \A i \in DOMAIN config \ EntryIds(entries) : config'[i] = config[i]
             /\ last'.err = NoError
             /\ singeltons' = singeltons
             /\ objs' = objs]_vars

\* load_config with two entries for A, the second one in force, while B
\* keeps the definition an earlier register gave it
C12_Witness ==
    /\ last.op = "load_config"
    /\ DOMAIN config = {"A", "B"}
    /\ config["A"].factory = "f2"
    /\ config["A"].scope = SCOPE_PROTOTYPE
    /\ config["B"].factory = "boom"

\* ------------------------------------------- the decorators, applied
\* the keyword arguments short_description is called with
KwargsInputs ==
    {EmptyDict,
     "boolean" :> "True",
     ("boolean" :> "False") @@ ("admin_order_field" :> "name"),
     "short_description" :> "other"}

iocvars == <<config, singeltons, objs, resetMark, got, implicit, last, reqvars,
            handlers>>

\* actions.action(description)(func)
Action(description, func) ==
    /\ Len(actions) < MaxActions
    /\ \E r \in {wrap(actions, funcs, description, func)} :
          /\ funcs' = r.funcs
          /\ actions' = r.actions
          /\ dec' = [op |-> "action", func |-> func, ret |-> r.ret,
                     description |-> description, kwargs |-> EmptyDict,
                     pre |-> funcs[func].attrs]
    /\ decorated' = Append(decorated, func)
    /\ UNCHANGED iocvars

\* short_description(description, **kwargs)(func)
ShortDescription(description, kwargs, func) ==
    /\ \E r \in {wrapper(funcs, description, kwargs, func)} :
          /\ funcs' = r.funcs
          /\ dec' = [op |-> "short_description", func |-> func, ret |-> r.ret,
                     description |-> description, kwargs |-> kwargs,
                     pre |-> funcs[func].attrs]
    /\ UNCHANGED <<actions, decorated, iocvars>>

NextHelpers ==
    \/ \E d \in Descriptions, f \in Funcs : Action(d, f)
    \/ \E d \in Descriptions, kw \in KwargsInputs, f \in Funcs :
          ShortDescription(d, kw, f)

SpecHelpers == Init /\ [][NextHelpers]_vars

\* the last application of a decorator of actions.action returned func
\* itself, its body as it was, with short_description set to the description
ActionReturnsFunc ==
    dec.op = "action" =>
        /\ dec.ret = dec.func
        /\ funcs[dec.func].body = dec.func
        /\ funcs[dec.func].attrs =
              ("short_description" :> dec.description) @@ dec.pre

\* C13 as stated: the list holds the decorated functions in decoration
\* order, its length the number of decorations, each decorated function
\* once; a decoration returns the function with short_description set.
C13_ActionsOnceEach ==
    /\ Len(actions) = Len(decorated)
    /\ \A k \in DOMAIN actions : actions[k] = decorated[k]
    /\ \A k \in DOMAIN decorated : Count(actions, decorated[k]) = 1
    /\ ActionReturnsFunc

\* C13 amended: the list holds one entry per decoration, in decoration
\* order, its length the number of decorations, so a function decorated k
\* times is in it k times and nothing else is in it; a decoration returns
\* the function itself with short_description set and its other attributes
\* and its body as they were.
C13_ActionsPerDecoration ==
    /\ Len(actions) = Len(decorated)
    /\ \A k \in DOMAIN actions : actions[k] = decorated[k]
    /\ \A f \in Funcs : Count(actions, f) = Count(decorated, f)
    /\ ActionReturnsFunc

\* t1, t2 and t1 again were decorated, the last time with another description
C13_Witness ==
    /\ actions = <<"t1", "t2", "t1">>
    /\ dec.op = "action"
    /\ "short_description" \in DOMAIN dec.pre
    /\ dec.pre["short_description"] # dec.description
    /\ funcs["t1"].attrs["short_description"] = dec.description

\* the last application of short_description returned func itself, its
\* body as it was, every keyword an attribute with the given value, and
\* no attribute but short_description and the keywords added or changed
DecoratedAsGiven ==
    /\ dec.ret = dec.func
    /\ funcs[dec.func].body = dec.func
    /\ \A key \in DOMAIN dec.kwargs :
          /\ key \in DOMAIN funcs[dec.func].attrs
          /\ funcs[dec.func].attrs[key] = dec.kwargs[key]
    /\ DOMAIN funcs[dec.func].attrs =
          DOMAIN dec.pre \cup {"short_description"} \cup DOMAIN dec.kwargs
    /\ \A a \in DOMAIN dec.pre \ ({"short_description"} \cup DOMAIN dec.kwargs) :
          funcs[dec.func].attrs[a] = dec.pre[a]

\* C14 as stated: short_description(description, **kwargs) returns the
\* function itself with short_description = description and every keyword
\* as an attribute with its value, and adds no other attribute.
C14_ShortDescriptionSet ==
    dec.op = "short_description" =>
        /\ DecoratedAsGiven
        /\ funcs[dec.func].attrs["short_description"] = dec.description

\* C14 amended: as stated, but short_description = description only when
\* no keyword is named short_description; such a keyword is set after the
\* description and its value is the one the attribute holds.
C14_ShortDescriptionUnlessKeyword ==
    dec.op = "short_description" =>
        /\ DecoratedAsGiven
        /\ funcs[dec.func].attrs["short_description"] =
              IF "short_description" \in DOMAIN dec.kwargs
              THEN dec.kwargs["short_description"]
              ELSE dec.description

\* t1 was decorated with two keywords, one replacing an attribute it had,
\* while t2 has a short_description and no attribute boolean
C14_Witness ==
    /\ dec.op = "short_description"
    /\ dec.func = "t1"
    /\ DOMAIN dec.kwargs = {"boolean", "admin_order_field"}
    /\ "boolean" \in DOMAIN dec.pre
    /\ dec.pre["boolean"] # funcs["t1"].attrs["boolean"]
    /\ funcs["t1"].attrs["short_description"] = dec.description
    /\ DOMAIN funcs["t2"].attrs = {"short_description"}

\* the mapping kept under SESSION_KEY on request r, empty when there is none
Kept(reqs, r) ==
    IF SESSION_KEY \in DOMAIN reqs[r].items THEN reqs[r].items[SESSION_KEY]
    ELSE EmptyDict

\* a get(object_id) through wrapper w is the step taken
RacGetStep(w, object_id) ==
    /\ last'.op = "get"
    /\ last'.w = w
    /\ last'.object_id = object_id

\* C15 as stated: a get through a wrapper of an id whose scope is SINGLETON
\* or PROTOTYPE writes neither to the request store nor to the
\* session-backed store; a get of a PROTOTYPE id that returns has invoked
\* its factory, and a get of a SINGLETON id that returns, returns what the
\* singleton cache of the wrapped context holds.
C15_NoCachingAtWrapper ==
    [][\A i \in DOMAIN config, w \in Wrappers :
          (config[i].scope \in {SCOPE_SINGLETON, SCOPE_PROTOTYPE} /\ RacGetStep(w, i)) =>
             /\ wrappers' = wrappers
             /\ sessions' = sessions
             /\ \A r \in Requests : Kept(requests', r) = Kept(requests, r)
             /\ (config[i].scope = SCOPE_PROTOTYPE /\ last'.err = NoError) =>
                   (Count(last'.made, i) = 1 /\ last'.n > Len(objs))
             /\ (config[i].scope = SCOPE_SINGLETON /\ last'.err = NoError) =>
                   (i \in DOMAIN singeltons' /\ last'.n = singeltons'[i])]_vars

\* C15 amended: such a get adds no entry to the request store and none to
\* the session-backed store (the mapping on the wrapper's request is left
\* as it is or replaced by an empty one, no other request is touched); when
\* the id is in neither store and not in the singleton cache, a get of a
\* PROTOTYPE id that returns has invoked its factory once and returns the
\* new instance, and a get of a SINGLETON id that returns has cached what
\* it returns; an id that is in the singleton cache and in neither store is
\* served from the singleton cache without a factory invocation.
C15_NoEntryAddedAtWrapper ==
    [][\A i \in DOMAIN config, w \in Wrappers :
          (config[i].scope \in {SCOPE_SINGLETON, SCOPE_PROTOTYPE} /\ RacGetStep(w, i)) =>
             /\ wrappers' = wrappers
             /\ sessions' = sessions
             /\ \A r \in Requests \ {wrappers[w].request} : requests'[r] = requests[r]
             /\ Kept(requests', wrappers[w].request) \in
                   {Kept(requests, wrappers[w].request), EmptyDict}
             /\ (i \notin DOMAIN wrappers[w].request_store
                 /\ i \notin DOMAIN SessionView(w)
                 /\ last'.err = NoError) =>
                   IF i \in DOMAIN singeltons
                   THEN /\ last'.n = singeltons[i]
                        /\ last'.made = <<>>
                        /\ singeltons' = singeltons
                   ELSE /\ Count(last'.made, i) = 1
                        /\ last'.n > Len(objs)
                        /\ IF config[i].scope = SCOPE_SINGLETON
                           THEN i \in DOMAIN singeltons' /\ singeltons'[i] = last'.n
                           ELSE i \notin DOMAIN singeltons']_vars

\* the second get in a row of the PROTOTYPE A through w1 made a second
\* instance and w1 holds nothing
C15_Witness ==
    /\ "A" \in DOMAIN config
    /\ config["A"].scope = SCOPE_PROTOTYPE
    /\ RacGetReturned("w1", "A")
    /\ last.made = <<"A">>
    /\ last.pre_len >= 1
    /\ objs[last.pre_len].scope = SCOPE_PROTOTYPE
    /\ last.n = last.pre_len + 1
    /\ wrappers["w1"].request_store = EmptyDict
    /\ "A" \notin DOMAIN Kept(requests, "r1")

\* ------------------------------------------ definitions that depend
\* definitions whose arguments inject one another: A and B in a cycle, A
\* injecting itself, A injecting the unregistered C before itself, B with a
\* factory that raises after A was resolved
ArgsUnregisteredFirst == Tuple(<<Inject("C"), Inject("A")>>)

RegInputsDeps ==
    {<<"A", RegInput("f1", None, None, SCOPE_SINGLETON)>>,
     <<"A", RegInput("boom", None, None, SCOPE_SINGLETON)>>,
     <<"A", RegInput("f1", None, KwDep("B"), SCOPE_SINGLETON)>>,
     <<"A", RegInput("f2", None, KwDep("A"), SCOPE_PROTOTYPE)>>,
     <<"A", RegInput("f1", ArgsUnregisteredFirst, None, SCOPE_SINGLETON)>>,
     <<"B", RegInput("f1", None, None, SCOPE_SINGLETON)>>,
     <<"B", RegInput("f1", None, KwDep("A"), SCOPE_SINGLETON)>>,
     <<"B", RegInput("boom", None, KwDep("A"), SCOPE_SINGLETON)>>}

NextDeps ==
    \/ \E in \in RegInputsDeps : register(in[1], in[2])
    \/ \E entries \in ConfigInputs : load_config(entries)
    \/ reset
    \/ \E i \in Ids : Get(i)
    \/ \E i \in Ids : GetScope(i)

SpecDeps == Init /\ [][NextDeps]_vars

\* the id whose factory the step's get invoked last
LastMade == last'.made[Len(last'.made)]

\* C16: when a factory invoked during get(id) raises, the call fails with
\* what the factory raised, the factory was invoked once in the call, no
\* instance of its id is produced or cached, id is not added to the
\* singleton cache, the registry is unchanged, and a get(id) that follows
\* directly invokes the factory of id again.
C16_FactoryErrorPropagates ==
    [][\A i \in Ids :
          /\ (/\ last'.op = "get"
              /\ last'.object_id = i
              /\ last'.made # <<>>
              /\ config[LastMade].factory = "boom")
             => (/\ last'.err = FactoryError
                 /\ Count(last'.made, LastMade) = 1
                 /\ LastMade \notin DOMAIN singeltons'
                 /\ i \notin DOMAIN singeltons'
                 /\ \A k \in (Len(objs) + 1)..Len(objs') :
                       objs'[k].object_id \notin {i, LastMade}
                 /\ config' = config)
          /\ (/\ last.op = "get"
              /\ last.object_id = i
              /\ last.err = FactoryError
              /\ last.made[Len(last.made)] = i
              /\ last'.op = "get"
              /\ last'.object_id = i)
             => (/\ Count(last'.made, i) = 1
                 /\ last'.err = FactoryError)]_vars

\* a get of B, whose factory raised, while the A it injects, produced
\* before, is in the singleton cache and B is not
C16_Witness ==
    /\ last.op = "get"
    /\ last.object_id = "B"
    /\ last.err = FactoryError
    /\ last.made = <<"B">>
    /\ last.pre_cached = {"A"}
    /\ DOMAIN singeltons = {"A"}
    /\ config["B"].factory = "boom"
    /\ objs # <<>>
    /\ objs[Len(objs)].object_id = "A"

\* the targets of the Inject markers in arg, in the order of evaluation
RECURSIVE Targets(_)
RECURSIVE TargetsOfEach(_)
TargetsOfEach(es) ==
    IF es = <<>> THEN <<>> ELSE Targets(Head(es)) \o TargetsOfEach(Tail(es))

Targets(arg) == IF arg.k = "inject" THEN <<arg.v>> ELSE TargetsOfEach(arg.e)

\* the ids the definition of object_id injects, args before kwargs
DepsOf(object_id) ==
    IF object_id \in DOMAIN config
    THEN Targets(config[object_id].args) \o Targets(config[object_id].kwargs)
    ELSE <<>>

DepSet(object_id) == {DepsOf(object_id)[k] : k \in DOMAIN DepsOf(object_id)}

\* the ids reachable from the ids in S along at most k more edges
RECURSIVE ReachFrom(_, _)
ReachFrom(S, k) ==
    IF k = 0 THEN S ELSE ReachFrom(S \cup UNION {DepSet(j) : j \in S}, k - 1)

\* the ids object_id depends on, directly or transitively (the graph has
\* the registered ids and the unregistered target C)
Reachable(object_id) == ReachFrom(DepSet(object_id), Cardinality(Ids) + 1)

DependsOnItself(object_id) == object_id \in Reachable(object_id)

Acyclic(object_id) ==
    \A j \in {object_id} \cup Reachable(object_id) : ~DependsOnItself(j)

Max(S) == CHOOSE x \in S : \A y \in S : y <= x

\* the number of ids on the longest path from object_id, the graph acyclic
RECURSIVE GraphDepth(_)
GraphDepth(object_id) ==
    1 + Max({0} \cup {GraphDepth(j) : j \in DepSet(object_id)})

\* a get(object_id) is the step taken
GetStep(object_id) ==
    /\ last'.op = "get"
    /\ last'.object_id = object_id

\* get(object_id) ends with an instance or one of the two errors, and does
\* so within the recursion depth GraphDepth(object_id)
TerminatesWithinDepth(object_id) ==
    /\ last'.err \in {NoError, ObjectDefinitionNotFound, FactoryError}
    /\ GraphDepth(object_id) <= RecursionLimit
    /\ get(Start, object_id, RecursionLimit + 1 - GraphDepth(object_id)).err = last'.err

\* C17 as stated: get(id) ends with an instance, ObjectDefinitionNotFound
\* or a factory error, within the depth of the graph, when the graph
\* reachable from id is acyclic; when id depends on itself and is not in
\* the singleton cache, get(id) recurses until the recursion limit and the
\* factory of id is not invoked.
C17_CycleNeverTerminates ==
    [][\A i \in Ids :
          GetStep(i) =>
             /\ Acyclic(i) => TerminatesWithinDepth(i)
             /\ (DependsOnItself(i) /\ i \notin DOMAIN singeltons) =>
                   (last'.err = RecursionError /\ Count(last'.made, i) = 0)]_vars

\* how the resolution of object_id goes, path the ids under resolution and
\* cache the ids in the singleton cache: "diverge" when it comes back to an
\* id under resolution, "raise" when a target is unregistered or a factory
\* raises, "ok" otherwise; the arguments are resolved in order and the
\* first that does not resolve decides
RECURSIVE Walk(_, _, _)
RECURSIVE WalkEach(_, _, _)
WalkEach(ts, path, cache) ==
    IF ts = <<>> THEN [res |-> "ok", cache |-> cache]
    ELSE LET h == Walk(Head(ts), path, cache) IN
         IF h.res # "ok" THEN h ELSE WalkEach(Tail(ts), path, h.cache)

Walk(object_id, path, cache) ==
    IF object_id \in cache THEN [res |-> "ok", cache |-> cache]
    ELSE IF object_id \notin DOMAIN config THEN [res |-> "raise", cache |-> cache]
    ELSE IF object_id \in path THEN [res |-> "diverge", cache |-> cache]
    ELSE LET a == WalkEach(DepsOf(object_id), path \cup {object_id}, cache) IN
         IF a.res # "ok" THEN a
         ELSE IF config[object_id].factory = "boom"
         THEN [res |-> "raise", cache |-> a.cache]
         ELSE [res |-> "ok",
               cache |-> IF config[object_id].scope = SCOPE_SINGLETON
                         THEN a.cache \cup {object_id} ELSE a.cache]

\* C17 amended: the acyclic part as stated; get(id) recurses until the
\* recursion limit, the factory of id not invoked, exactly when the
\* resolution, following the Inject markers in the order of evaluation,
\* comes back to an id under resolution: an id in the singleton cache is
\* returned without resolving its arguments and an argument that raises
\* ends the call, so a cycle behind either is not entered.
C17_CycleUnlessCut ==
    [][\A i \in Ids :
          GetStep(i) =>
             /\ Acyclic(i) => TerminatesWithinDepth(i)
             /\ LET w == Walk(i, {}, DOMAIN singeltons) IN
                /\ w.res = "diverge" <=> last'.err = RecursionError
                /\ w.res = "ok" <=> last'.err = NoError
                /\ w.res = "raise" <=>
                      last'.err \in {ObjectDefinitionNotFound, FactoryError}
                /\ w.res = "diverge" =>
                      (DependsOnItself(i) \/ \E j \in Reachable(i) : DependsOnItself(j))
                /\ last'.err = RecursionError => Count(last'.made, i) = 0
                /\ DOMAIN singeltons' = w.cache]_vars

\* get(A) recursed to the limit: A injects B, B injects A, nothing cached
C17_Witness ==
    /\ last.op = "get"
    /\ last.object_id = "A"
    /\ last.err = RecursionError
    /\ last.made = <<>>
    /\ DOMAIN config = {"A", "B"}
    /\ DepsOf("A") = <<"B">>
    /\ DepsOf("B") = <<"A">>
    /\ singeltons = EmptyDict

\* ------------------------------------------- get, called concurrently
\* the configuration the shared context is constructed with
ConfigConc ==
    << <<"A", "f1", None, None, None, SCOPE_SINGLETON>>,
       <<"B", "f1", None, KwDep("A"), None, SCOPE_SINGLETON>> >>

\* ApplicationContext(config), no handler in a call
InitConc ==
    /\ config = load_config_into(EmptyDict, ConfigConc)
    /\ singeltons = EmptyDict
    /\ objs = <<>>
    /\ resetMark = 0
    /\ got = [i \in Ids |-> {}]
    /\ implicit = {}
    /\ last = [w |-> "", op |-> "init", object_id |-> "", err |-> NoError, n |-> 0,
               reg |-> NoDef, scope |-> "", made |-> <<>>, pre_cached |-> {},
               pre_len |-> 0, pre_stored |-> {}]
    /\ wrappers = [w \in Wrappers |->
                     [request |-> IF w = "w1" THEN "r1" ELSE "r2",
                      request_store |-> EmptyDict]]
    /\ requests = [r \in Requests |-> [session |-> "s1", items |-> EmptyDict]]
    /\ sessions = [x \in Sessions |-> EmptyDict]
    /\ InitHelpers
    /\ InitHandlers

concvars == <<config, resetMark, got, implicit, last, reqvars, helpervars>>

\* handler h calls get(object_id)
GetCall(h, object_id) ==
    /\ handlers[h].pc \in {"idle", "done"}
    /\ handlers' = [handlers EXCEPT ![h] =
                       [Idle EXCEPT !.pc = "check", !.object_id = object_id]]
    /\ UNCHANGED <<singeltons, objs, concvars>>

\* if object_id in self._singeltons: return self._singeltons[object_id]
GetCheck(h) ==
    /\ handlers[h].pc = "check"
    /\ handlers' = [handlers EXCEPT ![h] =
          IF in_singeltons(Start, handlers[h].object_id)
          THEN [@ EXCEPT !.pc = "done", !.ret = singeltons[handlers[h].object_id]]
          ELSE [@ EXCEPT !.pc = "lookup"]]
    /\ UNCHANGED <<singeltons, objs, concvars>>

\* object_def = self._get_object_def(object_id)
GetLookup(h) ==
    /\ handlers[h].pc = "lookup"
    /\ \E d \in {get_object_def(Start, handlers[h].object_id)} :
          handlers' = [handlers EXCEPT ![h] =
             IF d.err # NoError
             THEN [@ EXCEPT !.pc = "done", !.err = d.err]
             ELSE [@ EXCEPT !.pc = "create", !.object_def = d.val]]
    /\ UNCHANGED <<singeltons, objs, concvars>>

\* obj = self._create(object_def)
GetCreate(h) ==
    /\ handlers[h].pc = "create"
    /\ \E r \in {create(Start, handlers[h].object_def, 1)} :
          /\ Len(r.c.objs) <= MaxObjs
          /\ singeltons' = r.c.singeltons
          /\ objs' = r.c.objs
          /\ handlers' = [handlers EXCEPT ![h] =
                IF r.err # NoError
                THEN [@ EXCEPT !.pc = "done", !.err = r.err]
                ELSE [@ EXCEPT !.pc = "store", !.obj = r.val.n]]
    /\ UNCHANGED concvars

\* if object_def.scope == SCOPE_SINGLETON: self._singeltons[object_id] = obj
\* return obj
GetStore(h) ==
    /\ handlers[h].pc = "store"
    /\ singeltons' =
          IF is_singleton(handlers[h].object_def)
          THEN add_singleton(Start, handlers[h].object_id,
                             Obj(handlers[h].obj)).singeltons
          ELSE singeltons
    /\ handlers' = [handlers EXCEPT ![h] =
                       [@ EXCEPT !.pc = "done", !.ret = handlers[h].obj]]
    /\ UNCHANGED <<objs, concvars>>

NextConc ==
    \/ \E h \in Handlers, i \in Ids : GetCall(h, i)
    \/ \E h \in Handlers : GetCheck(h)
    \/ \E h \in Handlers : GetLookup(h)
    \/ \E h \in Handlers : GetCreate(h)
    \/ \E h \in Handlers : GetStore(h)

SpecConc == InitConc /\ [][NextConc]_vars

\* C18: when handlers call get(id) concurrently on the shared context for
\* a SINGLETON id, the steps of get interleaved in any order, the factory
\* of id is invoked at most once and the calls return one and the same
\* instance.
C18_ConcurrentAtMostOnce ==
    \A i \in DOMAIN config :
        config[i].scope = SCOPE_SINGLETON =>
            /\ Produced(i) <= 1
            /\ \A h \in Handlers, g \in Handlers :
                  (/\ handlers[h].pc = "done" /\ handlers[g].pc = "done"
                   /\ handlers[h].object_id = i /\ handlers[g].object_id = i
                   /\ handlers[h].err = NoError /\ handlers[g].err = NoError)
                  => handlers[h].ret = handlers[g].ret

\* --------------------------------- injection through a wrapper
\* A is registered REQUEST-scoped or SINGLETON, B with a keyword Inject(A)
RegInputsInject ==
    {<<"A", RegInput("f1", None, None, SCOPE_REQUEST)>>,
     <<"A", RegInput("f1", None, None, SCOPE_SINGLETON)>>,
     <<"B", RegInput("f1", None, KwDep("A"), Absent)>>}

RGetInject(w, object_id) == RGetWithin(w, object_id, MaxObjsInject)

NextInject ==
    \/ \E in \in RegInputsInject : register(in[1], in[2])
    \/ \E w \in Wrappers, i \in Ids : RGetInject(w, i)

SpecInject == InitRequest /\ [][NextInject]_vars

\* the instance bound to the one keyword of instance n
InjectedInto(heap, n) == heap[n].kwargs[1].e[1].n

\* C19: when b is registered with a keyword argument Inject(a) and a is
\* REQUEST-scoped, the instance a get(b) through wrapper w injects is the
\* instance w holds for a from an earlier get(a), and a get(a) through w
\* directly after the get(b) returns the instance that was injected.
C19_InjectedIsRequestInstance ==
    [][\A w \in Wrappers, a \in DOMAIN config, b \in DOMAIN config :
          (config[a].scope = SCOPE_REQUEST /\ config[b].kwargs.e = KwDep(a).e) =>
             /\ (/\ RacGetStep(w, b)
                 /\ last'.err = NoError
                 /\ last'.n > Len(objs)
                 /\ a \in DOMAIN wrappers[w].request_store)
                => InjectedInto(objs', last'.n) = wrappers[w].request_store[a]
             /\ (/\ RacGetReturned(w, b)
                 /\ last.n \in NewObjs
                 /\ RacGetStep(w, a)
                 /\ last'.err = NoError)
                => last'.n = InjectedInto(objs, last.n)]_vars

\* C20: in every state every id in the singleton cache has a definition
\* in the registry; register, load_config and get_scope leave the
\* singleton cache and the instances as they are, and get, also one that
\* fails after it resolved a part of its arguments, leaves the registry as
\* it is.
C20_CacheWithinRegistry ==
    [][/\ DOMAIN singeltons \subseteq DOMAIN config
       /\ DOMAIN singeltons' \subseteq DOMAIN config'
       /\ last'.op \in {"register", "load_config", "get_scope"} =>
             (singeltons' = singeltons /\ objs' = objs)
       /\ last'.op = "get" => config' = config]_vars

\* a get of B failed in the factory of B after it had produced and cached
\* the A that B injects
C20_Witness ==
    /\ last.op = "get"
    /\ last.object_id = "B"
    /\ last.err = FactoryError
    /\ last.made = <<"A", "B">>
    /\ last.pre_cached = {}
    /\ DOMAIN singeltons = {"A"}
    /\ DOMAIN config = {"A", "B"}

====
